---------------------------- MODULE Spec2Model ----------------------------
(***************************************************************************)
(* Model of the request execution core of jira-mcp-bearer:                 *)
(*   - jiraRequest (lib/jira-request.js, duplicated in index.js): one      *)
(*     logical call = a chain of physical fetch attempts with a timeout    *)
(*     timer per attempt, status classification, best-effort enrichment,   *)
(*     linear backoff and a retry budget;                                  *)
(*   - getCached (lib/utils.js, duplicated in index.js): the process-wide  *)
(*     TTL cache in front of a producer.                                   *)
(* Two specifications share the module: Spec drives one logical            *)
(* jiraRequest call, CacheSpec drives overlapping getCached calls.         *)
(***************************************************************************)
EXTENDS Integers, Sequences, FiniteSets, TLC

VARIABLES
    \* ---- jiraRequest: arguments of the logical call
    bearerToken,    \* the bearerToken argument
    optHeaders,     \* options.headers (the empty map when absent)
    budget,         \* the retries argument of the outermost call
    \* ---- jiraRequest: the running call
    pc,             \* where the innermost frame is suspended
    retries,        \* the retries parameter of the innermost frame
    response,       \* the response the innermost frame received
    errorMessage,   \* the local errorMessage of the innermost frame
    timers,         \* pending timeout timers, named by attempt number
    outcome,        \* what the logical call returned or threw
    \* ---- jiraRequest: what the environment observed
    sent,           \* the headers object of every fetch invocation, in order
    fetched,        \* how every fetch invocation settled, in order
    bodyRead,       \* how the response.json() of the innermost frame settled
    sleeps,         \* the argument of every sleep() call, in order
    armed,          \* how many timeout timers were armed so far
    \* ---- getCached
    cache,          \* the module-level Map: key -> entry
    now,            \* Date.now()
    calls,          \* every getCached call made so far, in order of invocation
    produced,       \* how many times a producer has been invoked
    \* ---- tool handlers
    tool,           \* the name of the tool being invoked
    toolPc,         \* where its handler is suspended
    handled,        \* how the handler's promise settled
    invocations,    \* how many tool invocations were made so far
    \* ---- loadConfig
    configFile,     \* config.json on disk
    env,            \* process.env
    config,         \* what loadConfig returned, or how the process exited
    \* ---- isValidFilePath
    filePath,       \* the filePath argument
    workingDir,     \* process.cwd()
    valid           \* what isValidFilePath returned

reqVars == <<bearerToken, optHeaders, budget, pc, retries, response,
             errorMessage, timers, outcome, sent, fetched, bodyRead,
             sleeps, armed>>
cacheVars == <<cache, now, calls, produced>>
toolVars == <<tool, toolPc, handled, invocations>>
configVars == <<configFile, env, config>>
pathVars == <<filePath, workingDir, valid>>
vars == <<reqVars, cacheVars, toolVars, configVars, pathVars>>

-----------------------------------------------------------------------------
(* Program constants *)

UNAUTHORIZED == 401
FORBIDDEN == 403
NOT_FOUND == 404
TOO_MANY_REQUESTS == 429
INTERNAL_SERVER_ERROR == 500
BAD_GATEWAY == 502
SERVICE_UNAVAILABLE == 503
GATEWAY_TIMEOUT == 504
NO_CONTENT == 204

REQUEST_TIMEOUT_MS == 30000
CACHE_TTL_MS == 300000
MAX_RETRIES == 3
RETRY_DELAY_BASE_MS == 1000

(* Bounds of the model *)

\* the largest retries argument a caller passes beyond the default
MaxBudget == 4
\* how many getCached calls are made
MaxCalls == 2
\* how many segments the filePath argument has at most
MaxSegments == 3
\* how many tool invocations are made, one after the other
MaxInvocations == 2
\* how far the clock advances
MaxTime == 1
\* the largest ttl a caller passes, apart from the default
MaxTtl == 1

-----------------------------------------------------------------------------
(* Inputs of jiraRequest *)

Tokens == {"tokA", "tokB"}

\* a header value is the sequence of the fragments of its text
EmptyHeaders == [h \in {} |-> <<>>]

\* options.headers as callers may supply it
CallerHeaders ==
    { EmptyHeaders,
      "Content-Type" :> <<"text/plain">>,
      "Authorization" :> <<"Basic intruder">> }

\* statuses the transport may answer with
Statuses == {200, 204, 400, 401, 403, 404, 429, 500, 502, 503, 504}

StatusTexts == {"", "Bad Request"}

\* the body a response carries, as response.json() sees it: whether it parses,
\* whether the parsed object has an errorMessages list, and the data it holds
Body(parses, hasErrorMessages, errorMessages, data) ==
    [parses |-> parses, hasErrorMessages |-> hasErrorMessages,
     errorMessages |-> errorMessages, data |-> data]

EmptyBody == Body(FALSE, FALSE, <<>>, "none")

\* bodies of non-2xx responses
ErrorBodies ==
    { EmptyBody,
      Body(TRUE, FALSE, <<>>, "none"),
      Body(TRUE, TRUE, <<>>, "none"),
      Body(TRUE, TRUE, <<"A", "B">>, "none") }

\* bodies of 2xx responses
OkBodies ==
    { EmptyBody,
      Body(TRUE, FALSE, <<>>, "id7"),
      Body(TRUE, FALSE, <<>>, "id8") }

\* the bodies the transport may attach to a response of a given status
BodiesFor(status) ==
    IF status = 204 THEN {EmptyBody}
    ELSE IF status \in 200..299 THEN OkBodies
    ELSE ErrorBodies

NoResponse == [status |-> 0, statusText |-> "", body |-> EmptyBody]

\* how a fetch invocation settles: a response, a rejection caused by
\* controller.abort(), or any other rejection
Responded(status) == [kind |-> "response", status |-> status]
Aborted == [kind |-> "abort", status |-> 0]
Failed == [kind |-> "reject", status |-> 0]

-----------------------------------------------------------------------------
(* Pure parts of jiraRequest *)

\* response.ok
IsOk(status) == status >= 200 /\ status <= 299

\* variant: every 5xx status is treated as transient
IsRetryableAny5xx(status) == status >= INTERNAL_SERVER_ERROR

\* [BAD_GATEWAY, SERVICE_UNAVAILABLE, GATEWAY_TIMEOUT].includes(response.status)
IsRetryable(status) == status \in {BAD_GATEWAY, SERVICE_UNAVAILABLE, GATEWAY_TIMEOUT}

\* variant: the server-error message names a fixed status instead of response.status
ClassifiedMessageFixedStatus(status, statusText) ==
    IF status >= INTERNAL_SERVER_ERROR
    THEN <<"Jira server error (", ToString(INTERNAL_SERVER_ERROR), ")",
           ". The server may be temporarily unavailable.">>
    ELSE <<"Jira API error: ", ToString(status), " ", statusText>>

\* the switch on response.status; a message is the sequence of its fragments
ClassifiedMessage(status, statusText) ==
    CASE status = UNAUTHORIZED ->
           <<"Authentication failed", ". Your Bearer token is invalid or expired.">>
      [] status = FORBIDDEN ->
           <<"Permission denied", ". Your Bearer token does not have access to this resource.">>
      [] status = NOT_FOUND ->
           <<"Resource not found", ". Check that the issue key, project key, or endpoint is correct.">>
      [] status = TOO_MANY_REQUESTS ->
           <<"Rate limit exceeded", ". Please wait before making more requests.">>
      [] status \in {INTERNAL_SERVER_ERROR, BAD_GATEWAY, SERVICE_UNAVAILABLE, GATEWAY_TIMEOUT} ->
           <<"Jira server error (", ToString(status), ")", ". The server may be temporarily unavailable.">>
      [] OTHER ->
           <<"Jira API error: ", ToString(status), " ", statusText>>

\* Array.prototype.join
RECURSIVE Join(_, _)
Join(list, sep) ==
    IF Len(list) = 0 THEN <<>>
    ELSE IF Len(list) = 1 THEN <<list[1]>>
    ELSE <<list[1], sep>> \o Join(Tail(list), sep)

\* variant: `if (response.status === '204')`, a number compared with a string
IsNoContentComparedWithString(status) == FALSE

\* variant: `if (response.status = 204)`, an assignment, which is always truthy
IsNoContentAssigned(status) == TRUE

\* if (response.status === 204)
IsNoContent(status) == status = NO_CONTENT

\* variant: a body that does not parse replaces the message with the parse error
EnrichSurfacesParseFailure(message, body) ==
    IF ~body.parses
    THEN <<"Unexpected token in JSON">>
    ELSE IF body.hasErrorMessages /\ Len(body.errorMessages) > 0
    THEN message \o <<"\nDetails: ">> \o Join(body.errorMessages, ", ")
    ELSE message

\* variant: only errorMessages[0] is appended
EnrichFirstOnly(message, body) ==
    IF body.parses /\ body.hasErrorMessages /\ Len(body.errorMessages) > 0
    THEN message \o <<"\nDetails: ", body.errorMessages[1]>>
    ELSE message

\* the try { errorBody = await response.json(); ... } catch {} block
Enrich(message, body) ==
    IF body.parses /\ body.hasErrorMessages /\ Len(body.errorMessages) > 0
    THEN message \o <<"\nDetails: ">> \o Join(body.errorMessages, ", ")
    ELSE message

\* variant: the delay is scaled by the retries left, so it shrinks
DelayByRetriesLeft(r) == RETRY_DELAY_BASE_MS * r

\* const delay = RETRY_DELAY_BASE_MS * (MAX_RETRIES - retries + 1)
Delay(r) == RETRY_DELAY_BASE_MS * (MAX_RETRIES - r + 1)

\* the headers object literal handed to fetch; later spread entries win
BuildHeaders(token, callerHeaders) ==
    callerHeaders
      @@ ("Authorization" :> <<"Bearer ", token>>
          @@ "Content-Type" :> <<"application/json">>
          @@ "User-Agent" :> <<"jira-mcp-bearer/1.0.0">>)

\* `Request timeout: The request took longer than ${REQUEST_TIMEOUT_MS / 1000} seconds`
TimeoutMessage ==
    <<"Request timeout", ": The request took longer than ",
      ToString(REQUEST_TIMEOUT_MS \div 1000), " seconds">>

\* variant: the line `error.status = response.status` is missing
HttpErrorWithoutStatus(message, status) ==
    [kind |-> "error", name |-> "Error", message |-> message,
     hasStatus |-> FALSE, status |-> 0]

Pending == [kind |-> "pending"]
Returned(data) == [kind |-> "value", data |-> data]
ReturnedNull == [kind |-> "null"]
\* const error = new Error(errorMessage); error.status = response.status
HttpError(message, status) ==
    [kind |-> "error", name |-> "Error", message |-> message,
     hasStatus |-> TRUE, status |-> status]
\* an error object that carries no status property
PlainError(name, message) ==
    [kind |-> "error", name |-> name, message |-> message,
     hasStatus |-> FALSE, status |-> 0]

\* what a fetch or a body read rejects with
AbortError == PlainError("AbortError", <<"This operation was aborted">>)
NetworkError == PlainError("TypeError", <<"fetch failed">>)
ParseError == PlainError("SyntaxError", <<"Unexpected token in JSON">>)

\* variant: the test is `error.name !== 'AbortError'`
CatchInverted(error) ==
    IF error.name # "AbortError"
    THEN PlainError("Error", TimeoutMessage)
    ELSE error

\* variant: the catch block wraps whatever it caught in a new Error
CatchWrapsAll(error) ==
    IF error.name = "AbortError"
    THEN PlainError("Error", TimeoutMessage)
    ELSE PlainError("Error", <<"Request failed: ">> \o error.message)

\* variant: the catch block tests for another error name
CatchTimeoutErrorOnly(error) ==
    IF error.name = "TimeoutError"
    THEN PlainError("Error", TimeoutMessage)
    ELSE error

\* catch (error) { if (error.name === 'AbortError') throw new Error(...); throw error; }
Catch(error) ==
    IF error.name = "AbortError"
    THEN PlainError("Error", TimeoutMessage)
    ELSE error

-----------------------------------------------------------------------------
(* Pure parts of getCached *)

\* cache keys the tools use
Keys == {"custom-fields", "issue-types"}

\* the ttl argument: a caller's own value, or the default CACHE_TTL_MS
Ttls == (1..MaxTtl) \cup {CACHE_TTL_MS}

\* cache.get(key) is undefined
NoEntry == [present |-> FALSE, data |-> 0, timestamp |-> 0]

\* map.get(key), as an entry record
EntryOf(map, key) ==
    IF key \in DOMAIN map
    THEN [present |-> TRUE, data |-> map[key].data, timestamp |-> map[key].timestamp]
    ELSE NoEntry

\* const cached = cache.get(key)
CacheGet(key) == EntryOf(cache, key)

\* variant: the ttl argument is ignored, the default is always used
IsFreshByDefaultTtl(cached, t, ttl) == t - cached.timestamp < CACHE_TTL_MS

\* variant: the age test is written the wrong way round
IsFreshReversed(cached, t, ttl) == t - cached.timestamp > ttl

\* variant: an entry whose age equals ttl still counts as fresh
IsFreshInclusive(cached, t, ttl) == t - cached.timestamp <= ttl

\* Date.now() - cached.timestamp < ttl
IsFresh(cached, t, ttl) == t - cached.timestamp < ttl

\* variant: an entry already present is kept, the first write wins
CacheSetIfAbsent(key, data, t) ==
    IF key \in DOMAIN cache
    THEN cache
    ELSE (key :> [data |-> data, timestamp |-> t]) @@ cache

\* cache.set(key, { data, timestamp: Date.now() })
CacheSet(key, data, t) == (key :> [data |-> data, timestamp |-> t]) @@ cache

\* what the n-th producer invocation resolves with: a value of its own
ProducedValue(n) == n

\* what the n-th producer invocation rejects with: one of the errors
\* jiraRequest throws
ProducerError(n) ==
    IF n % 2 = 1
    THEN HttpError(ClassifiedMessage(NOT_FOUND, ""), NOT_FOUND)
    ELSE PlainError("Error", TimeoutMessage)

\* no error was thrown
NoError == [kind |-> "none"]

\* the calls suspended at `await fetchFn()`
Awaiting == {d \in 1..Len(calls) : calls[d].state = "awaiting"}

\* the calls that have returned or thrown
Settled == {d \in 1..Len(calls) : calls[d].state # "awaiting"}

CacheInit ==
    /\ cache = <<>>
    /\ now = 0
    /\ calls = <<>>
    /\ produced = 0

-----------------------------------------------------------------------------
(* Pure parts of loadConfig *)

\* a property that is missing from the parsed file, or an unset variable
Absent == "(absent)"

\* config.json: whether existsSync finds it, whether readFile and JSON.parse
\* succeed, whether the parsed object has a jira member, and its two values
ConfigFile(exists, parses, hasJira, baseUrl, token) ==
    [exists |-> exists, parses |-> parses, hasJira |-> hasJira,
     baseUrl |-> baseUrl, bearerToken |-> token]

ConfigFiles ==
    { ConfigFile(FALSE, FALSE, FALSE, Absent, Absent),
      ConfigFile(TRUE, FALSE, FALSE, Absent, Absent),
      ConfigFile(TRUE, TRUE, FALSE, Absent, Absent) }
    \cup { ConfigFile(TRUE, TRUE, TRUE, u, t) :
             u \in {Absent, "", "https://file.example"},
             t \in {Absent, "", "fileTok"} }

\* process.env.JIRA_BASE_URL and process.env.JIRA_BEARER_TOKEN
Env(baseUrl, token) == [JIRA_BASE_URL |-> baseUrl, JIRA_BEARER_TOKEN |-> token]

Envs ==
    { Env(u, t) : u \in {Absent, "", "https://env.example"},
                  t \in {Absent, "", "envTok"} }

\* the truthiness of a string-valued property: undefined and '' are falsy
Truthy(v) == v # Absent /\ v # ""

NotLoaded == [kind |-> "none"]
Credentials(baseUrl, token) ==
    [kind |-> "returned", baseUrl |-> baseUrl, bearerToken |-> token]
Exited(code) == [kind |-> "exit", code |-> code]

\* config.jira?.baseUrl && config.jira?.bearerToken, inside the try block
FileSuppliesBoth(file) ==
    /\ file.exists
    /\ file.parses
    /\ file.hasJira
    /\ Truthy(file.baseUrl)
    /\ Truthy(file.bearerToken)

\* process.env.JIRA_BASE_URL && process.env.JIRA_BEARER_TOKEN
EnvSuppliesBoth(e) == Truthy(e.JIRA_BASE_URL) /\ Truthy(e.JIRA_BEARER_TOKEN)

\* variant: the environment is consulted before config.json
LoadConfigEnvFirst(file, e) ==
    IF EnvSuppliesBoth(e)
    THEN Credentials(e.JIRA_BASE_URL, e.JIRA_BEARER_TOKEN)
    ELSE IF FileSuppliesBoth(file)
    THEN Credentials(file.baseUrl, file.bearerToken)
    ELSE Exited(1)

\* the body of loadConfig
LoadConfigResult(file, e) ==
    IF FileSuppliesBoth(file)
    THEN Credentials(file.baseUrl, file.bearerToken)
    ELSE IF EnvSuppliesBoth(e)
    THEN Credentials(e.JIRA_BASE_URL, e.JIRA_BEARER_TOKEN)
    ELSE Exited(1)

-----------------------------------------------------------------------------
(* Pure parts of isValidFilePath.  A path string is the sequence of its
   characters; it is handled as the sequence of its segments, each segment
   the sequence of its characters, and rendered back to characters where the
   code compares strings. *)

Dot == <<".">>
DotDot == <<".", ".">>
Srv == <<"s", "r", "v">>
App == <<"a", "p", "p">>
AppBackup == <<"a", "p", "p", "-", "b", "a", "k">>
Txt == <<"f", ".", "t", "x", "t">>

\* the segments a filePath argument is made of
Segments == {Dot, DotDot, Srv, App, AppBackup, Txt}

\* the sequences over S of length at most n
RECURSIVE SeqsUpTo(_, _)
SeqsUpTo(S, n) ==
    IF n = 0 THEN {<<>>}
    ELSE LET shorter == SeqsUpTo(S, n - 1)
         IN shorter \cup {Append(q, x) : q \in shorter, x \in S}

\* a path string: whether it begins with '/', and its segments
Path(absolute, segments) == [absolute |-> absolute, segments |-> segments]

FilePaths == {Path(a, q) : a \in BOOLEAN, q \in SeqsUpTo(Segments, MaxSegments)}

\* process.cwd(): an absolute, normalised directory
WorkingDirs == {<<Srv, App>>, <<Srv>>}

\* path.resolve applied to segments on top of the directory base
RECURSIVE Normalize(_, _)
Normalize(base, segments) ==
    IF segments = <<>> THEN base
    ELSE LET seg == Head(segments)
             rest == Tail(segments)
         IN IF seg = Dot THEN Normalize(base, rest)
            ELSE IF seg = DotDot
            THEN Normalize(IF base = <<>> THEN base ELSE SubSeq(base, 1, Len(base) - 1), rest)
            ELSE Normalize(Append(base, seg), rest)

\* path.resolve(filePath) in the working directory dir
Resolve(path, dir) ==
    Normalize(IF path.absolute THEN <<>> ELSE dir, path.segments)

\* the string of a resolved path: '/' alone for the root, else '/seg' per segment
RECURSIVE Render(_)
Render(segments) ==
    IF segments = <<>> THEN <<"/">>
    ELSE IF Len(segments) = 1 THEN <<"/">> \o segments[1]
    ELSE <<"/">> \o Head(segments) \o Render(Tail(segments))

\* String.prototype.startsWith
StartsWith(str, prefix) ==
    /\ Len(str) >= Len(prefix)
    /\ SubSeq(str, 1, Len(prefix)) = prefix

\* the body of isValidFilePath
IsValidFilePath(path, dir) ==
    LET resolved == Render(Resolve(path, dir))
        cwd == Render(Normalize(<<>>, dir))
    IN StartsWith(resolved, cwd)

-----------------------------------------------------------------------------
(* jiraRequest as a state machine.  The recursion jiraRequest(..., retries - 1)
   is the innermost frame taking over: every outer frame has returned the
   inner promise and run its finally block. *)

\* the number of the attempt in progress = fetch invocations so far
Attempt == Len(sent)

\* finally { clearTimeout(timeout) } of the innermost frame
ClearTimeout == timers \ {Attempt}

\* the part of a frame that runs synchronously up to `await fetch(...)`:
\* setTimeout(() => controller.abort(), REQUEST_TIMEOUT_MS), then fetch(url, {...})
StartAttempt(token, callerHeaders, pending) ==
    /\ armed' = armed + 1
    /\ timers' = pending \cup {Attempt + 1}
    /\ sent' = Append(sent, BuildHeaders(token, callerHeaders))
    /\ pc' = "fetch"

\* a caller invokes jiraRequest(baseUrl, bearerToken, endpoint, options, retries)
Call(token, callerHeaders, r) ==
    /\ pc = "idle"
    /\ bearerToken' = token
    /\ optHeaders' = callerHeaders
    /\ budget' = r
    /\ retries' = r
    /\ StartAttempt(token, callerHeaders, timers)
    /\ UNCHANGED <<response, errorMessage, outcome, fetched, bodyRead, sleeps>>
    /\ UNCHANGED <<cacheVars, toolVars, configVars, pathVars>>

\* variant: clearTimeout is called in the catch block only, not in finally
ReturnWithoutClear(result) ==
    /\ outcome' = result
    /\ UNCHANGED timers
    /\ pc' = "done"

\* the innermost frame returns a value: finally clears its timer
Return(result) ==
    /\ outcome' = result
    /\ timers' = ClearTimeout
    /\ pc' = "done"

\* an error is thrown inside try: the catch block maps it, finally clears
Throw(error) ==
    /\ outcome' = Catch(error)
    /\ timers' = ClearTimeout
    /\ pc' = "done"

\* variant: the retry branch does not call sleep at all
RetryOrThrowWithoutSleep(message, pending) ==
    IF IsRetryable(response.status) /\ retries > 0
    THEN /\ errorMessage' = message
         /\ pc' = "sleep"
         /\ timers' = pending
         /\ UNCHANGED <<outcome, sleeps>>
    ELSE /\ Throw(HttpError(message, response.status))
         /\ errorMessage' = message
         /\ UNCHANGED sleeps

\* variant: the budget test is off by one (retries >= 0)
RetryOrThrowOffByOne(message, pending) ==
    IF IsRetryable(response.status) /\ retries >= 0
    THEN /\ sleeps' = Append(sleeps, Delay(retries))
         /\ errorMessage' = message
         /\ pc' = "sleep"
         /\ timers' = pending
         /\ UNCHANGED outcome
    ELSE /\ Throw(HttpError(message, response.status))
         /\ errorMessage' = message
         /\ UNCHANGED sleeps

\* if (isRetryable && retries > 0) { ... await sleep(delay) ... } else throw error
\* (pending: the timers still pending when the decision is taken)
RetryOrThrow(message, pending) ==
    IF IsRetryable(response.status) /\ retries > 0
    THEN /\ sleeps' = Append(sleeps, Delay(retries))
         /\ errorMessage' = message
         /\ pc' = "sleep"
         /\ timers' = pending
         /\ UNCHANGED outcome
    ELSE /\ Throw(HttpError(message, response.status))
         /\ errorMessage' = message
         /\ UNCHANGED sleeps

\* await fetch(...) resolves with a response
FetchResolves(status, statusText, body) ==
    /\ pc = "fetch"
    /\ fetched' = Append(fetched, Responded(status))
    /\ response' = [status |-> status, statusText |-> statusText, body |-> body]
    /\ IF ~IsOk(status)
       THEN /\ errorMessage' = ClassifiedMessage(status, statusText)
            /\ pc' = "errorBody"
            /\ UNCHANGED <<timers, outcome>>
       ELSE IF IsNoContent(status)
       THEN /\ Return(ReturnedNull)
            /\ UNCHANGED errorMessage
       ELSE /\ pc' = "body"
            /\ UNCHANGED <<timers, outcome, errorMessage>>
    /\ UNCHANGED <<bearerToken, optHeaders, budget, retries, sent, bodyRead,
                   sleeps, armed>>
    /\ UNCHANGED <<cacheVars, toolVars, configVars, pathVars>>

\* await fetch(...) rejects with an error that is not an AbortError
FetchRejects ==
    /\ pc = "fetch"
    /\ fetched' = Append(fetched, Failed)
    /\ Throw(NetworkError)
    /\ UNCHANGED <<bearerToken, optHeaders, budget, retries, response,
                   errorMessage, sent, bodyRead, sleeps, armed>>
    /\ UNCHANGED <<cacheVars, toolVars, configVars, pathVars>>

\* the error-path `await response.json()` settles; a rejection is swallowed
ErrorBodyRead ==
    /\ pc = "errorBody"
    /\ bodyRead' = "settled"
    /\ RetryOrThrow(Enrich(errorMessage, response.body), timers)
    /\ UNCHANGED <<bearerToken, optHeaders, budget, retries, response,
                   sent, fetched, armed>>
    /\ UNCHANGED <<cacheVars, toolVars, configVars, pathVars>>

\* the success-path `await response.json()` settles
BodyRead ==
    /\ pc = "body"
    /\ bodyRead' = "settled"
    /\ IF response.body.parses
       THEN Return(Returned(response.body.data))
       ELSE Throw(ParseError)
    /\ UNCHANGED <<bearerToken, optHeaders, budget, retries, response,
                   errorMessage, sent, fetched, sleeps, armed>>
    /\ UNCHANGED <<cacheVars, toolVars, configVars, pathVars>>

\* variant: the recursive call passes retries, not retries - 1
SleepDoneKeepsBudget ==
    /\ pc = "sleep"
    /\ UNCHANGED retries
    /\ StartAttempt(bearerToken, optHeaders, ClearTimeout)
    /\ response' = NoResponse
    /\ errorMessage' = <<>>
    /\ bodyRead' = "none"
    /\ UNCHANGED <<bearerToken, optHeaders, budget, outcome, fetched, sleeps>>
    /\ UNCHANGED <<cacheVars, toolVars, configVars, pathVars>>

\* await sleep(delay) resolves: return jiraRequest(..., retries - 1), whose
\* synchronous prefix runs before the outer frame's finally clears its timer
SleepDone ==
    /\ pc = "sleep"
    /\ retries' = retries - 1
    /\ StartAttempt(bearerToken, optHeaders, ClearTimeout)
    /\ response' = NoResponse
    /\ errorMessage' = <<>>
    /\ bodyRead' = "none"
    /\ UNCHANGED <<bearerToken, optHeaders, budget, outcome, fetched, sleeps>>
    /\ UNCHANGED <<cacheVars, toolVars, configVars, pathVars>>

\* variant: the controller's signal is not passed to fetch, so abort() reaches
\* nothing
TimeoutFiresWithoutSignal ==
    /\ Attempt \in timers
    /\ pc \in {"fetch", "body", "errorBody", "sleep"}
    /\ timers' = timers \ {Attempt}
    /\ UNCHANGED <<bearerToken, optHeaders, budget, pc, retries, response,
                   errorMessage, outcome, sent, fetched, bodyRead, sleeps, armed>>
    /\ UNCHANGED <<cacheVars, toolVars, configVars, pathVars>>

\* the timer of the attempt in progress fires: controller.abort()
TimeoutFires ==
    /\ Attempt \in timers
    /\ pc \in {"fetch", "body", "errorBody", "sleep"}
    /\ IF pc = "fetch"
       THEN \* the pending fetch rejects with an AbortError
            /\ fetched' = Append(fetched, Aborted)
            /\ Throw(AbortError)
            /\ UNCHANGED <<errorMessage, sleeps, bodyRead>>
       ELSE IF pc = "body"
       THEN \* the pending response.json() rejects with an AbortError
            /\ bodyRead' = "aborted"
            /\ Throw(AbortError)
            /\ UNCHANGED <<errorMessage, sleeps, fetched>>
       ELSE IF pc = "errorBody"
       THEN \* response.json() rejects inside try {} catch {}: ignored
            /\ bodyRead' = "aborted"
            /\ RetryOrThrow(errorMessage, timers \ {Attempt})
            /\ UNCHANGED fetched
       ELSE \* the fetch has settled: aborting changes nothing
            /\ timers' = timers \ {Attempt}
            /\ UNCHANGED <<pc, outcome, errorMessage, sleeps, fetched, bodyRead>>
    /\ UNCHANGED <<bearerToken, optHeaders, budget, retries, response,
                   sent, armed>>
    /\ UNCHANGED <<cacheVars, toolVars, configVars, pathVars>>

ReqInit ==
    /\ bearerToken = "tokA"
    /\ optHeaders = EmptyHeaders
    /\ budget = MAX_RETRIES
    /\ pc = "idle"
    /\ retries = MAX_RETRIES
    /\ response = NoResponse
    /\ errorMessage = <<>>
    /\ timers = {}
    /\ outcome = Pending
    /\ sent = <<>>
    /\ fetched = <<>>
    /\ bodyRead = "none"
    /\ sleeps = <<>>
    /\ armed = 0

ReqNext ==
    \/ \E token \in Tokens, h \in CallerHeaders, r \in 0..MaxBudget : Call(token, h, r)
    \/ \E s \in Statuses, t \in StatusTexts :
         \E b \in BodiesFor(s) : FetchResolves(s, t, b)
    \/ FetchRejects
    \/ ErrorBodyRead
    \/ BodyRead
    \/ SleepDone
    \/ TimeoutFires

\* no tool has been invoked
ToolInit ==
    /\ tool = "none"
    /\ toolPc = "idle"
    /\ handled = Pending
    /\ invocations = 0

\* loadConfig has returned the credentials of a complete config.json
ConfigLoaded ==
    /\ configFile = ConfigFile(TRUE, TRUE, TRUE, "https://file.example", "fileTok")
    /\ env = Env(Absent, Absent)
    /\ config = LoadConfigResult(configFile, env)

\* isValidFilePath has not been called
PathIdle ==
    /\ filePath = Path(FALSE, <<>>)
    /\ workingDir = <<Srv, App>>
    /\ valid = "pending"

Init == ReqInit /\ CacheInit /\ ToolInit /\ ConfigLoaded /\ PathIdle

Next == ReqNext

Spec == Init /\ [][Next]_vars

\* a call as the tools make it: no headers of the caller's own
FairNext ==
    \/ \E token \in Tokens, r \in 0..MaxBudget : Call(token, EmptyHeaders, r)
    \/ \E s \in Statuses, t \in StatusTexts :
         \E b \in BodiesFor(s) : FetchResolves(s, t, b)
    \/ FetchRejects
    \/ ErrorBodyRead
    \/ BodyRead
    \/ SleepDone
    \/ TimeoutFires

\* The call under the scheduling the runtime provides: a timer that is
\* pending fires (setTimeout), and a sleep that was started completes.  The
\* transport is not assumed to answer.
FairSpec ==
    /\ Init
    /\ [][FairNext]_vars
    /\ WF_vars(TimeoutFires)
    /\ WF_vars(SleepDone)

-----------------------------------------------------------------------------
(* getCached as a state machine: any number of calls may be suspended at
   `await fetchFn()` at once; the clock never runs backwards. *)

\* a caller invokes getCached(key, fetchFn, ttl): the part up to `await fetchFn()`
GetCached(key, ttl) ==
    /\ Len(calls) < MaxCalls
    /\ LET cached == CacheGet(key) IN
       IF cached.present /\ IsFresh(cached, now, ttl)
       THEN \* return cached.data
            /\ calls' = Append(calls,
                   [key |-> key, ttl |-> ttl, start |-> now, seen |-> cached,
                    state |-> "returned", inv |-> 0, value |-> cached.data,
                    end |-> now, stored |-> NoEntry,
                    pending |-> Awaiting, rank |-> Cardinality(Settled) + 1,
                    thrown |-> NoError, error |-> NoError, before |-> cached])
            /\ UNCHANGED produced
       ELSE \* fetchFn() is invoked and awaited
            /\ produced' = produced + 1
            /\ calls' = Append(calls,
                   [key |-> key, ttl |-> ttl, start |-> now, seen |-> cached,
                    state |-> "awaiting", inv |-> produced + 1, value |-> 0,
                    end |-> 0, stored |-> NoEntry,
                    pending |-> Awaiting, rank |-> 0,
                    thrown |-> NoError, error |-> NoError, before |-> NoEntry])
    /\ UNCHANGED <<cache, now>>
    /\ UNCHANGED <<reqVars, toolVars, configVars, pathVars>>

\* variant: the timestamp is taken when the call starts, not when it completes
ProducerResolvesStampsStart(c) ==
    /\ calls[c].state = "awaiting"
    /\ LET data == ProducedValue(calls[c].inv) IN
       /\ cache' = CacheSet(calls[c].key, data, calls[c].start)
       /\ calls' = [calls EXCEPT ![c].state = "returned",
                                 ![c].value = data,
                                 ![c].end = now,
                                 ![c].rank = Cardinality(Settled) + 1,
                                 ![c].before = CacheGet(calls[c].key),
                                 ![c].stored = EntryOf(cache', calls[c].key)]
    /\ UNCHANGED <<now, produced>>
    /\ UNCHANGED <<reqVars, toolVars, configVars, pathVars>>

\* the producer of call c resolves: cache.set(key, { data, timestamp: Date.now() })
ProducerResolves(c) ==
    /\ calls[c].state = "awaiting"
    /\ LET data == ProducedValue(calls[c].inv) IN
       /\ cache' = CacheSet(calls[c].key, data, now)
       /\ calls' = [calls EXCEPT ![c].state = "returned",
                                 ![c].value = data,
                                 ![c].end = now,
                                 ![c].rank = Cardinality(Settled) + 1,
                                 ![c].before = CacheGet(calls[c].key),
                                 ![c].stored = EntryOf(cache', calls[c].key)]
    /\ UNCHANGED <<now, produced>>
    /\ UNCHANGED <<reqVars, toolVars, configVars, pathVars>>

\* variant: a catch block deletes the entry of the key before rethrowing
ProducerRejectsDeletesEntry(c) ==
    /\ calls[c].state = "awaiting"
    /\ cache' = [k \in DOMAIN cache \ {calls[c].key} |-> cache[k]]
    /\ calls' = [calls EXCEPT ![c].state = "threw",
                              ![c].end = now,
                              ![c].rank = Cardinality(Settled) + 1,
                              ![c].thrown = ProducerError(calls[c].inv),
                              ![c].error = ProducerError(calls[c].inv),
                              ![c].before = CacheGet(calls[c].key),
                              ![c].stored = EntryOf(cache', calls[c].key)]
    /\ UNCHANGED <<now, produced>>
    /\ UNCHANGED <<reqVars, toolVars, configVars, pathVars>>

\* variant: the entry is written in a finally block, whether or not the
\* producer resolved
ProducerRejectsCachesFailure(c) ==
    /\ calls[c].state = "awaiting"
    /\ cache' = CacheSet(calls[c].key, 0, now)
    /\ calls' = [calls EXCEPT ![c].state = "threw",
                              ![c].end = now,
                              ![c].rank = Cardinality(Settled) + 1,
                              ![c].thrown = ProducerError(calls[c].inv),
                              ![c].error = ProducerError(calls[c].inv),
                              ![c].before = CacheGet(calls[c].key),
                              ![c].stored = EntryOf(cache', calls[c].key)]
    /\ UNCHANGED <<now, produced>>
    /\ UNCHANGED <<reqVars, toolVars, configVars, pathVars>>

\* the producer of call c rejects: `await fetchFn()` throws the error out of
\* getCached, the cache.set below it is not reached
ProducerRejects(c) ==
    /\ calls[c].state = "awaiting"
    /\ UNCHANGED <<cache, now, produced>>
    /\ calls' = [calls EXCEPT ![c].state = "threw",
                              ![c].end = now,
                              ![c].rank = Cardinality(Settled) + 1,
                              ![c].thrown = ProducerError(calls[c].inv),
                              ![c].error = ProducerError(calls[c].inv),
                              ![c].before = CacheGet(calls[c].key),
                              ![c].stored = EntryOf(cache', calls[c].key)]
    /\ UNCHANGED <<reqVars, toolVars, configVars, pathVars>>

\* time passes
Tick ==
    /\ now < MaxTime
    /\ now' = now + 1
    /\ UNCHANGED <<cache, calls, produced>>
    /\ UNCHANGED <<reqVars, toolVars, configVars, pathVars>>

CacheNext ==
    \/ \E key \in Keys, ttl \in Ttls : GetCached(key, ttl)
    \/ \E c \in 1..Len(calls) : ProducerResolves(c)
    \/ \E c \in 1..Len(calls) : ProducerRejects(c)
    \/ Tick

CacheSpec == Init /\ [][CacheNext]_vars

-----------------------------------------------------------------------------
(* Tool handlers.  Every registered handler has the same frame,
       async (args) => { try { ...; return { content: [{ type, text }] } }
                         catch (error) { return { content: [...], isError: true } } }
   and differs in what it awaits and in how it shapes the result.  One tool
   of each shape is modelled. *)

Tools ==
    { "jira-get-user",              \* JSON.stringify(data)
      "jira-get-project-versions",  \* data.map(...)
      "jira-delete-issue",          \* the result is not used
      "jira-get-custom-fields",     \* getCached, fields.filter(...) in the producer
      "jira-upload-attachment" }    \* readFile and fetch, not jiraRequest

CachedTools == {"jira-get-custom-fields"}

\* the tools that dereference the result of jiraRequest
DereferencingTools == {"jira-get-project-versions", "jira-get-custom-fields"}

\* the first argument a cached tool passes to getCached
CacheKeyOf(t) == "custom-fields"

\* the TypeError of null.map(...) or null.filter(...)
ShapeError == PlainError("TypeError", <<"Cannot read properties of null">>)

\* the rejection of readFile(filePath)
FileError == PlainError("Error", <<"ENOENT: no such file or directory">>)

\* throw new Error(`Jira API error: ${response.status} ${response.statusText}`)
UploadError(status, statusText) ==
    PlainError("Error", <<"Jira API error: ", ToString(status), " ", statusText>>)

\* the headers object of the fetch of jira-upload-attachment
UploadHeaders(token) ==
    "Authorization" :> <<"Bearer ", token>> @@ "X-Atlassian-Token" :> <<"no-check">>

\* whether shaping the result of jiraRequest throws
ShapeThrows(t, result) == t \in DereferencingTools /\ result.kind = "null"

\* the text a handler builds from the result of jiraRequest
ShapeText(t, result) ==
    IF t = "jira-delete-issue" THEN <<"Issue ", "DEV-1", " deleted successfully">>
    ELSE IF result.kind = "null" THEN <<"null">>
    ELSE <<result.data>>

\* return { content: [{ type: 'text', text }] }
SuccessEnvelope(text) ==
    [kind |-> "resolved", hasIsError |-> FALSE, isError |-> FALSE, text |-> text]

\* variant: the catch block returns the text without the isError flag
ErrorEnvelopeUnflagged(error) ==
    [kind |-> "resolved", hasIsError |-> FALSE, isError |-> FALSE,
     text |-> <<"Error: ">> \o error.message]

\* return { content: [{ type: 'text', text: `Error: ${error.message}` }], isError: true }
ErrorEnvelope(error) ==
    [kind |-> "resolved", hasIsError |-> TRUE, isError |-> TRUE,
     text |-> <<"Error: ">> \o error.message]

\* the request variables of a jiraRequest call that has not started
ResetRequest(token) ==
    /\ bearerToken' = token
    /\ optHeaders' = EmptyHeaders
    /\ budget' = MAX_RETRIES
    /\ pc' = "idle"
    /\ retries' = MAX_RETRIES
    /\ response' = NoResponse
    /\ errorMessage' = <<>>
    /\ timers' = {}
    /\ outcome' = Pending
    /\ sent' = <<>>
    /\ fetched' = <<>>
    /\ bodyRead' = "none"
    /\ sleeps' = <<>>
    /\ armed' = 0

\* the MCP server invokes the handler of tool t, which was registered with
\* the bearerToken loadConfig returned.  The handler runs up to its first await.
ToolCall(t) ==
    /\ toolPc \in {"idle", "done"}
    /\ invocations < MaxInvocations
    /\ invocations' = invocations + 1
    /\ tool' = t
    /\ ResetRequest(config.bearerToken)
    /\ LET cached == CacheGet(CacheKeyOf(t)) IN
       IF t \in CachedTools /\ cached.present /\ IsFresh(cached, now, CACHE_TTL_MS)
       THEN /\ handled' = SuccessEnvelope(<<cached.data>>)
            /\ toolPc' = "done"
       ELSE /\ handled' = Pending
            /\ toolPc' = IF t = "jira-upload-attachment" THEN "readFile" ELSE "invoked"
    /\ UNCHANGED <<cacheVars, configVars, pathVars>>

\* the handler, or the producer it gave to getCached, calls jiraRequest with
\* no headers of its own and the default budget
ToolRequest ==
    /\ toolPc = "invoked"
    /\ Call(bearerToken, EmptyHeaders, MAX_RETRIES)

\* jiraRequest has settled: the handler shapes the result, or catches
ToolSettle ==
    /\ toolPc = "invoked"
    /\ pc = "done"
    /\ toolPc' = "done"
    /\ IF outcome.kind = "error"
       THEN handled' = ErrorEnvelope(outcome) /\ UNCHANGED cache
       ELSE IF ShapeThrows(tool, outcome)
       THEN handled' = ErrorEnvelope(ShapeError) /\ UNCHANGED cache
       ELSE /\ handled' = SuccessEnvelope(ShapeText(tool, outcome))
            /\ IF tool \in CachedTools
               THEN cache' = CacheSet(CacheKeyOf(tool), outcome.data, now)
               ELSE UNCHANGED cache
    /\ UNCHANGED <<tool, invocations, now, calls, produced>>
    /\ UNCHANGED <<reqVars, configVars, pathVars>>

\* jira-upload-attachment: readFile settles; when it resolves the handler
\* calls fetch(url, { method, headers, body }) with no signal
UploadFileRead(ok) ==
    /\ toolPc = "readFile"
    /\ IF ok
       THEN /\ sent' = Append(sent, UploadHeaders(bearerToken))
            /\ toolPc' = "upload"
            /\ UNCHANGED handled
       ELSE /\ handled' = ErrorEnvelope(FileError)
            /\ toolPc' = "done"
            /\ UNCHANGED sent
    /\ UNCHANGED <<bearerToken, optHeaders, budget, pc, retries, response,
                   errorMessage, timers, outcome, fetched, bodyRead, sleeps, armed>>
    /\ UNCHANGED <<tool, invocations>>
    /\ UNCHANGED <<cacheVars, configVars, pathVars>>

\* jira-upload-attachment: the server answers the upload
UploadFetchResolves(status, statusText, body) ==
    /\ toolPc = "upload"
    /\ fetched' = Append(fetched, Responded(status))
    /\ response' = [status |-> status, statusText |-> statusText, body |-> body]
    /\ IF IsOk(status)
       THEN toolPc' = "uploadBody" /\ UNCHANGED handled
       ELSE /\ handled' = ErrorEnvelope(UploadError(status, statusText))
            /\ toolPc' = "done"
    /\ UNCHANGED <<bearerToken, optHeaders, budget, pc, retries, errorMessage,
                   timers, outcome, sent, bodyRead, sleeps, armed>>
    /\ UNCHANGED <<tool, invocations>>
    /\ UNCHANGED <<cacheVars, configVars, pathVars>>

\* jira-upload-attachment: the upload fails in the transport
UploadFetchRejects ==
    /\ toolPc = "upload"
    /\ fetched' = Append(fetched, Failed)
    /\ handled' = ErrorEnvelope(NetworkError)
    /\ toolPc' = "done"
    /\ UNCHANGED <<bearerToken, optHeaders, budget, pc, retries, response,
                   errorMessage, timers, outcome, sent, bodyRead, sleeps, armed>>
    /\ UNCHANGED <<tool, invocations>>
    /\ UNCHANGED <<cacheVars, configVars, pathVars>>

\* jira-upload-attachment: const data = await response.json() settles
UploadBodyRead ==
    /\ toolPc = "uploadBody"
    /\ bodyRead' = "settled"
    /\ handled' = IF response.body.parses
                  THEN SuccessEnvelope(<<response.body.data>>)
                  ELSE ErrorEnvelope(ParseError)
    /\ toolPc' = "done"
    /\ UNCHANGED <<bearerToken, optHeaders, budget, pc, retries, response,
                   errorMessage, timers, outcome, sent, fetched, sleeps, armed>>
    /\ UNCHANGED <<tool, invocations>>
    /\ UNCHANGED <<cacheVars, configVars, pathVars>>

ToolNext ==
    \/ \E t \in Tools : ToolCall(t)
    \/ ToolRequest
    \/ \E s \in Statuses, t \in StatusTexts :
         \E b \in BodiesFor(s) : FetchResolves(s, t, b)
    \/ FetchRejects
    \/ ErrorBodyRead
    \/ BodyRead
    \/ SleepDone
    \/ TimeoutFires
    \/ ToolSettle
    \/ \E ok \in BOOLEAN : UploadFileRead(ok)
    \/ \E s \in Statuses, t \in StatusTexts :
         \E b \in BodiesFor(s) : UploadFetchResolves(s, t, b)
    \/ UploadFetchRejects
    \/ UploadBodyRead

ToolSpec == Init /\ [][ToolNext]_vars

-----------------------------------------------------------------------------
(* loadConfig at startup: any config.json, any environment. *)

ConfigInit ==
    /\ ReqInit
    /\ CacheInit
    /\ ToolInit
    /\ PathIdle
    /\ configFile \in ConfigFiles
    /\ env \in Envs
    /\ config = NotLoaded

\* const { baseUrl, bearerToken } = await loadConfig()
LoadConfig ==
    /\ config = NotLoaded
    /\ config' = LoadConfigResult(configFile, env)
    /\ UNCHANGED <<configFile, env>>
    /\ UNCHANGED <<reqVars, cacheVars, toolVars, pathVars>>

ConfigNext == LoadConfig

ConfigSpec == ConfigInit /\ [][ConfigNext]_vars

-----------------------------------------------------------------------------
(* isValidFilePath, as zod's refine calls it on the filePath argument of
   jira-upload-attachment: any path, in any working directory. *)

PathInit ==
    /\ ReqInit
    /\ CacheInit
    /\ ToolInit
    /\ ConfigLoaded
    /\ filePath \in FilePaths
    /\ workingDir \in WorkingDirs
    /\ valid = "pending"

\* isValidFilePath(filePath)
ValidateFilePath ==
    /\ valid = "pending"
    /\ valid' = IF IsValidFilePath(filePath, workingDir) THEN "true" ELSE "false"
    /\ UNCHANGED <<filePath, workingDir>>
    /\ UNCHANGED <<reqVars, cacheVars, toolVars, configVars>>

PathNext == ValidateFilePath

PathSpec == PathInit /\ [][PathNext]_vars

-----------------------------------------------------------------------------
(* Vocabulary of the properties.  The expected values are written out here,
   independently of the definitions above. *)

TransientStatuses == {502, 503, 504}

HasPrefix(seq, pre) ==
    /\ Len(seq) >= Len(pre)
    /\ SubSeq(seq, 1, Len(pre)) = pre

\* the i-th fetch settled with a response whose status is in S
RespondedIn(i, S) ==
    /\ fetched[i].kind = "response"
    /\ fetched[i].status \in S

DefaultBudget == budget = 3 /\ pc # "idle"

\* no fetch follows an attempt that did not end in a 502/503/504 response
NonRetryableNeverRetried ==
    \A i \in 1..Len(fetched) :
        ~RespondedIn(i, TransientStatuses) => Len(sent) = i

(* C1 (as stated): with the default retry budget, a non-retryable failure is
   never retried and the number of fetch invocations of one logical call,
   the first included, never exceeds MAX_RETRIES = 3. *)
C1_AtMostMaxRetriesFetches ==
    DefaultBudget => (NonRetryableNeverRetried /\ Len(sent) <= 3)

(* C1 (amended): with the default retry budget, a non-retryable failure is
   never retried and the number of fetch invocations of one logical call,
   the first included, never exceeds MAX_RETRIES + 1 = 4. *)
C1_AtMostMaxRetriesPlusOneFetches ==
    DefaultBudget => (NonRetryableNeverRetried /\ Len(sent) <= 3 + 1)

\* a default-budget call that ended after its fourth fetch
C1_Witness ==
    /\ DefaultBudget
    /\ pc = "done"
    /\ Len(sent) = 4
    /\ Len(sleeps) = 3

(* C2: when every attempt of a default-budget call is answered with a status
   in {502, 503, 504}, the call ends after exactly 4 fetch invocations, with an
   error whose message begins 'Jira server error (<s>)', s being the status of
   the last attempt. *)
C2_ExhaustedAfterFourFetches ==
    ( /\ DefaultBudget
      /\ pc = "done"
      /\ Len(fetched) = Len(sent)
      /\ \A i \in 1..Len(fetched) : RespondedIn(i, TransientStatuses) )
    => /\ Len(sent) = 4
       /\ outcome.kind = "error"
       /\ \E s \in TransientStatuses :
            /\ fetched[Len(fetched)].status = s
            /\ HasPrefix(outcome.message,
                         <<"Jira server error (",
                           CASE s = 502 -> "502" [] s = 503 -> "503" [] s = 504 -> "504",
                           ")">>)

\* four transient answers whose last status differs from the first
C2_Witness ==
    /\ DefaultBudget
    /\ pc = "done"
    /\ Len(fetched) = 4
    /\ \A i \in 1..4 : RespondedIn(i, TransientStatuses)
    /\ fetched[1].status = 502
    /\ fetched[4].status = 504
    /\ outcome.kind = "error"

(* C3: when attempts 1..k-1 are answered with statuses in {502, 503, 504} and
   attempt k with a 2xx response carrying a body, no fetch follows attempt k
   (fetch was invoked exactly k times) and, once the body is parsed,
   jiraRequest returns the parsed body of attempt k. *)
C3_SuccessOnAttemptK ==
    \A k \in 1..Len(fetched) :
        ( /\ RespondedIn(k, (200..299) \ {204})
          /\ \A i \in 1..(k - 1) : RespondedIn(i, TransientStatuses) )
        => /\ Len(sent) = k
           /\ pc \in {"body", "done"}
           /\ (pc = "done" /\ response.body.parses /\ bodyRead # "aborted")
                => outcome = [kind |-> "value", data |-> response.body.data]

\* success on the last attempt the default budget allows, after 502, 503, 504
C3_Witness ==
    /\ DefaultBudget
    /\ pc = "done"
    /\ Len(sent) = 4
    /\ fetched = <<Responded(502), Responded(503), Responded(504), Responded(200)>>
    /\ outcome = [kind |-> "value", data |-> "id7"]

\* the message the claim gives for a terminal status
C4_ExpectedMessage(status, statusText) ==
    CASE status = 401 -> <<"Authentication failed">>
      [] status = 403 -> <<"Permission denied">>
      [] status = 404 -> <<"Resource not found">>
      [] status = 429 -> <<"Rate limit exceeded">>
      [] status = 500 -> <<"Jira server error (", "500", ")">>
      [] status = 400 -> <<"Jira API error: ", "400", " ", statusText>>

TerminalStatuses == {400, 401, 403, 404, 429, 500}

(* C4: a non-2xx response whose status is outside {502, 503, 504} ends the
   call whatever budget is left: no fetch and no backoff sleep follows it (a
   first attempt so answered is the only fetch), and the call rejects with an
   error carrying that status and the message classified for it. *)
C4_TerminalStatusNotRetried ==
    \A i \in 1..Len(fetched) :
        RespondedIn(i, TerminalStatuses)
        => /\ Len(sent) = i
           /\ Len(sleeps) = i - 1
           /\ pc \in {"errorBody", "done"}
           /\ pc = "done"
                => /\ outcome.kind = "error"
                   /\ outcome.hasStatus
                   /\ outcome.status = fetched[i].status
                   /\ HasPrefix(outcome.message,
                                C4_ExpectedMessage(fetched[i].status, response.statusText))

\* a 500 on the first attempt, with the whole default budget left
C4_Witness ==
    /\ DefaultBudget
    /\ pc = "done"
    /\ fetched = <<Responded(500)>>
    /\ retries = 3
    /\ sleeps = <<>>
    /\ outcome.kind = "error"

(* C5: when a fetch is rejected because its timeout fired, the logical call
   rejects with an error whose message starts with 'Request timeout', and no
   fetch or sleep follows, whatever budget is left and whether or not earlier
   attempts were retried. *)
C5_TimeoutIsTerminal ==
    \A i \in 1..Len(fetched) :
        fetched[i].kind = "abort"
        => /\ pc = "done"
           /\ Len(sent) = i
           /\ Len(sleeps) = i - 1
           /\ outcome.kind = "error"
           /\ HasPrefix(outcome.message, <<"Request timeout">>)

\* a timeout on the second attempt, after a retried 503, with budget left
C5_Witness ==
    /\ DefaultBudget
    /\ fetched = <<Responded(503), Aborted>>
    /\ retries = 2
    /\ pc = "done"

(* C6: within a default-budget call the delay slept before the n-th retry is
   RETRY_DELAY_BASE_MS * n: 1000, 2000, 3000 ms before attempts 2, 3, 4; the
   delays are strictly increasing. *)
C6_LinearBackoff ==
    DefaultBudget
    => /\ Len(sleeps) <= 3
       /\ \A n \in 1..Len(sleeps) :
            /\ sleeps[n] = RETRY_DELAY_BASE_MS * n
            /\ sleeps[n] = <<1000, 2000, 3000>>[n]
       /\ \A n \in 2..Len(sleeps) : sleeps[n - 1] < sleeps[n]

\* all three retries of a default-budget call have slept
C6_Witness ==
    /\ DefaultBudget
    /\ sleeps = <<1000, 2000, 3000>>
    /\ Len(sent) = 4

(* C7: retries of 502/503/504 use exponential backoff: within a default-budget
   call the first delay is the 1000 ms base and every later delay is at least
   double the one before it. *)
C7_ExponentialBackoff ==
    DefaultBudget
    => /\ Len(sleeps) >= 1 => sleeps[1] = 1000
       /\ \A n \in 2..Len(sleeps) : sleeps[n] >= 2 * sleeps[n - 1]

(* C8: every fetch invocation carries an Authorization header equal to
   'Bearer ' followed by the configured token, whatever options.headers the
   caller supplies. *)
C8_AuthorizationIsBearerToken ==
    \A i \in 1..Len(sent) :
        sent[i]["Authorization"] = <<"Bearer ", bearerToken>>

\* call j read an entry for its key when it was invoked
SawEntry(j) == calls[j].seen.present

\* the age, at the invocation of call j, of the entry it read
AgeSeen(j) == calls[j].start - calls[j].seen.timestamp

\* call i invoked its producer and stored the entry that call j read
StoredWhatWasSeen(i, j) ==
    /\ calls[i].key = calls[j].key
    /\ calls[i].state = "returned"
    /\ calls[i].inv # 0
    /\ calls[i].stored = calls[j].seen

(* C9: a getCached(k, f, ttl) call invoked less than ttl after an earlier call
   for k stored its entry does not invoke f and returns the value the earlier
   call returned; two such calls made one after the other invoke f exactly
   once. *)
C9_CacheIdempotence ==
    /\ \A j \in 1..Len(calls) :
         (SawEntry(j) /\ AgeSeen(j) < calls[j].ttl)
         => /\ calls[j].state = "returned"
            /\ calls[j].inv = 0
            /\ \E i \in 1..(j - 1) :
                 /\ StoredWhatWasSeen(i, j)
                 /\ calls[j].value = calls[i].value
    /\ ( /\ Len(calls) = 2
         /\ calls[1].key = calls[2].key
         /\ calls[1].state = "returned"
         /\ SawEntry(2)
         /\ calls[2].start - calls[1].end < calls[2].ttl )
       => /\ produced = 1
          /\ calls[2].value = calls[1].value

\* two calls for one key, the second made after time has passed, within ttl
C9_Witness ==
    /\ Len(calls) = 2
    /\ calls[1].key = calls[2].key
    /\ calls[1].inv = 1
    /\ calls[1].state = "returned"
    /\ calls[2].start > calls[1].end
    /\ AgeSeen(2) < calls[2].ttl
    /\ calls[2].state = "returned"
    /\ produced = 1

(* C10: a getCached(k, f, ttl) call invoked at least ttl after the entry for k
   was stored invokes f again; when that invocation resolves the call returns
   its result, not the stored one, and the entry for k is overwritten with
   that result and the time of completion.  Two such calls made one after the
   other invoke f twice. *)
C10_CacheRefresh ==
    /\ \A j \in 1..Len(calls) :
         (SawEntry(j) /\ AgeSeen(j) >= calls[j].ttl)
         => /\ calls[j].inv # 0
            /\ calls[j].state = "returned"
                 => /\ calls[j].value = calls[j].inv
                    /\ calls[j].value # calls[j].seen.data
                    /\ calls[j].stored =
                         [present |-> TRUE, data |-> calls[j].value,
                          timestamp |-> calls[j].end]
                    /\ calls[j].end >= calls[j].seen.timestamp + calls[j].ttl
    /\ ( /\ Len(calls) = 2
         /\ calls[1].key = calls[2].key
         /\ calls[1].state = "returned"
         /\ calls[2].state = "returned"
         /\ SawEntry(2)
         /\ calls[2].start - calls[1].end >= calls[2].ttl )
       => /\ produced = 2
          /\ calls[2].value = 2
          /\ cache[calls[2].key] = [data |-> 2, timestamp |-> calls[2].end]

\* the second call finds the first call's entry expired and replaces it
C10_Witness ==
    /\ Len(calls) = 2
    /\ calls[1].key = calls[2].key
    /\ calls[1].state = "returned"
    /\ calls[1].value = 1
    /\ SawEntry(2)
    /\ AgeSeen(2) >= calls[2].ttl
    /\ calls[2].state = "returned"
    /\ calls[2].value = 2
    /\ produced = 2
    /\ cache[calls[2].key].data = 2

\* call j was invoked after call i had returned or thrown
InvokedAfter(j, i) == i < j /\ calls[i].state # "awaiting" /\ i \notin calls[j].pending

\* call j read no entry, or one at least as old as its ttl, when it was invoked
SawNothingFresh(j) == ~SawEntry(j) \/ AgeSeen(j) >= calls[j].ttl

(* C11 (as stated): when the producer of a getCached(k, f, ttl) call throws,
   the call leaves no entry for k: right after the rejection cache.get(k) is
   undefined. *)
C11_FailureLeavesNoEntry ==
    \A c \in 1..Len(calls) :
        calls[c].state = "threw" => ~calls[c].stored.present

(* C11 (amended): when the producer of a getCached(k, f, ttl) call throws,
   the call rejects with the error the producer threw and writes nothing: the
   entry for k is, right after the rejection, what it was right before (none
   when there was none).  A later call for k that reads no entry younger than
   its ttl invokes the producer again, and the cache never holds anything but
   a value some producer resolved with. *)
C11_FailureWritesNoEntry ==
    /\ \A c \in 1..Len(calls) :
         calls[c].state = "threw"
         => /\ calls[c].thrown.kind = "error"
            /\ calls[c].error = calls[c].thrown
            /\ calls[c].stored = calls[c].before
    /\ \A i \in 1..Len(calls) : \A j \in 1..Len(calls) :
         ( /\ calls[i].state = "threw"
           /\ calls[j].key = calls[i].key
           /\ InvokedAfter(j, i)
           /\ SawNothingFresh(j) )
         => /\ calls[j].inv # 0
            /\ calls[j].inv # calls[i].inv
    /\ \A k \in DOMAIN cache :
         \E i \in 1..Len(calls) :
             /\ calls[i].key = k
             /\ calls[i].state = "returned"
             /\ calls[i].inv # 0
             /\ cache[k].data = calls[i].inv
    /\ ( /\ Len(calls) >= 2
         /\ calls[1].state = "threw"
         /\ calls[2].key = calls[1].key
         /\ InvokedAfter(2, 1) )
       => /\ ~SawEntry(2)
          /\ calls[2].inv = 2

\* the first call stored an entry; the second finds it expired, its producer
\* throws, and the expired entry is still there after the rejection
C11_Witness ==
    /\ Len(calls) = 2
    /\ calls[1].state = "returned"
    /\ calls[1].inv = 1
    /\ calls[2].key = calls[1].key
    /\ InvokedAfter(2, 1)
    /\ SawEntry(2)
    /\ AgeSeen(2) >= calls[2].ttl
    /\ calls[2].state = "threw"
    /\ calls[2].error.name = "Error"
    /\ calls[2].stored.present
    /\ cache[calls[2].key].data = 1

\* calls i and j are for the same key and j was invoked while i was suspended
\* at its producer
Overlap(i, j) == calls[i].key = calls[j].key /\ i \in calls[j].pending

\* call c returned after every other producer-invoking call for its key that
\* has returned so far
WroteLast(c) ==
    \A d \in 1..Len(calls) :
        (calls[d].key = calls[c].key /\ calls[d].state = "returned" /\ calls[d].inv # 0)
        => calls[d].rank <= calls[c].rank

(* C12: when a getCached call for k is invoked while an earlier call for k is
   suspended at its producer, and it reads no entry younger than its ttl, it
   invokes the producer too: the two invocations are distinct.  Each of the
   two, when its producer resolves, returns its own value and writes k with
   that value and the time of its completion; once both have returned the
   entry for k is the one written by whichever returned last, whichever was
   invoked first. *)
C12_ConcurrentMissesBothWrite ==
    \A i \in 1..Len(calls) : \A j \in 1..Len(calls) :
        (Overlap(i, j) /\ SawNothingFresh(j))
        => /\ calls[i].inv # 0
           /\ calls[j].inv # 0
           /\ calls[i].inv # calls[j].inv
           /\ \A c \in {i, j} :
                calls[c].state = "returned"
                => /\ calls[c].value = calls[c].inv
                   /\ calls[c].stored =
                        [present |-> TRUE, data |-> calls[c].inv,
                         timestamp |-> calls[c].end]
                   /\ WroteLast(c)
                        => cache[calls[c].key] =
                             [data |-> calls[c].inv, timestamp |-> calls[c].end]
           /\ (calls[i].state = "returned" /\ calls[j].state = "returned")
              => /\ calls[i].rank # calls[j].rank
                 /\ cache[calls[i].key].data >= 1
                 /\ (Len(calls) = 2 /\ calls[i].rank > calls[j].rank)
                    => cache[calls[i].key] =
                         [data |-> calls[i].inv, timestamp |-> calls[i].end]
                 /\ (Len(calls) = 2 /\ calls[j].rank > calls[i].rank)
                    => cache[calls[j].key] =
                         [data |-> calls[j].inv, timestamp |-> calls[j].end]

\* two overlapping misses; the call invoked first returns last, later in
\* time, and the entry is the one it wrote
C12_Witness ==
    /\ Len(calls) = 2
    /\ Overlap(1, 2)
    /\ calls[1].state = "returned"
    /\ calls[2].state = "returned"
    /\ calls[2].stored.data = 2
    /\ calls[1].rank > calls[2].rank
    /\ calls[1].end > calls[2].end
    /\ cache[calls[1].key] = [data |-> 1, timestamp |-> calls[1].end]
    /\ produced = 2

\* how the last fetch of the call settled
LastFetched == fetched[Len(fetched)]

(* C13: a call that ends on a non-2xx response, the last attempt of an
   exhausted budget included, rejects with an error whose status is the
   status of that response and whose message is not empty; a call that ends
   because a timeout aborted its fetch, or the reading of a 2xx body, rejects
   with an error that carries no status. *)
C13_FailureCarriesStatus ==
    (pc = "done" /\ Len(fetched) > 0)
    => /\ (LastFetched.kind = "response" /\ LastFetched.status \notin 200..299)
            => /\ outcome.kind = "error"
               /\ outcome.hasStatus
               /\ outcome.status = LastFetched.status
               /\ outcome.status \in 400..599
               /\ Len(outcome.message) > 0
               /\ outcome.message[1] # ""
       /\ ( \/ LastFetched.kind = "abort"
            \/ /\ LastFetched.kind = "response"
               /\ LastFetched.status \in 200..299
               /\ bodyRead = "aborted" )
            => /\ outcome.kind = "error"
               /\ ~outcome.hasStatus
               /\ HasPrefix(outcome.message, <<"Request timeout">>)

\* the budget is exhausted by 503, 502, 502, 504: the error carries 504
C13_Witness ==
    /\ DefaultBudget
    /\ pc = "done"
    /\ fetched = <<Responded(503), Responded(502), Responded(502), Responded(504)>>
    /\ outcome.kind = "error"
    /\ outcome.hasStatus
    /\ outcome.status = 504

(* C14: a 204 response ends the call with the result null, and response.json()
   is not invoked for it; any other 2xx response whose body was read and
   parsed ends the call with the parsed body as the result. *)
C14_NoContentReturnsNull ==
    \A k \in 1..Len(fetched) :
        /\ RespondedIn(k, {204})
             => /\ pc = "done"
                /\ Len(sent) = k
                /\ outcome = [kind |-> "null"]
                /\ bodyRead = "none"
        /\ ( /\ RespondedIn(k, (200..299) \ {204})
             /\ pc = "done"
             /\ bodyRead = "settled"
             /\ response.body.parses )
             => /\ outcome.kind = "value"
                /\ outcome.data = response.body.data
                /\ outcome.data \in {"id7", "id8"}

\* a 204 on the first attempt
C14_Witness ==
    /\ pc = "done"
    /\ fetched = <<Responded(204)>>
    /\ response.status = 204
    /\ bodyRead = "none"
    /\ outcome = [kind |-> "null"]

\* the beginning of the message classified for a status, and the number of
\* fragments the classified message is made of
C15_ExpectedPrefix(status, statusText) ==
    IF status \in {502, 503, 504}
    THEN <<"Jira server error (",
           CASE status = 502 -> "502" [] status = 503 -> "503" [] status = 504 -> "504",
           ")">>
    ELSE C4_ExpectedMessage(status, statusText)

C15_ExpectedLen(status) == IF status \in {401, 403, 404, 429} THEN 2 ELSE 4

(* C15: when a call ends on a non-2xx response whose body was read, and the
   body carries a non-empty errorMessages list, the message of the error is
   the message classified for the status followed, after the label
   '\nDetails: ', by the elements of the list in their order with ', ' between
   them, and nothing else; when the body does not parse, or has no
   errorMessages, or an empty list, the message is the classified message
   alone. *)
C15_DetailsAppendedInOrder ==
    ( /\ pc = "done"
      /\ Len(fetched) > 0
      /\ LastFetched.kind = "response"
      /\ LastFetched.status \notin 200..299
      /\ bodyRead = "settled" )
    => LET msg == outcome.message
           n == C15_ExpectedLen(LastFetched.status)
           list == response.body.errorMessages
       IN /\ Len(msg) >= n
          /\ HasPrefix(msg, C15_ExpectedPrefix(LastFetched.status, response.statusText))
          /\ \A m \in 1..n : msg[m] \notin {"\nDetails: ", "A", "B", ", "}
          /\ IF response.body.parses /\ response.body.hasErrorMessages /\ list # <<>>
             THEN /\ list = <<"A", "B">>
                  /\ SubSeq(msg, n + 1, Len(msg)) = <<"\nDetails: ", "A", ", ", "B">>
             ELSE Len(msg) = n

\* a 400 whose body lists A and B
C15_Witness ==
    /\ pc = "done"
    /\ fetched = <<Responded(400)>>
    /\ bodyRead = "settled"
    /\ response.body.errorMessages = <<"A", "B">>
    /\ response.statusText = "Bad Request"
    /\ outcome.message =
         <<"Jira API error: ", "400", " ", "Bad Request", "\nDetails: ", "A", ", ", "B">>

(* C16: when the body of a 2xx response other than 204 is read and does not
   parse, the call rejects with the error response.json() threw, which
   carries no status; the attempt made one fetch, and no sleep or fetch
   follows it. *)
C16_ParseFailureIsTerminal ==
    \A k \in 1..Len(fetched) :
        ( /\ RespondedIn(k, (200..299) \ {204})
          /\ bodyRead = "settled"
          /\ ~response.body.parses )
        => /\ pc = "done"
           /\ Len(sent) = k
           /\ Len(fetched) = k
           /\ Len(sleeps) = k - 1
           /\ outcome = [kind |-> "error", name |-> "SyntaxError",
                         message |-> <<"Unexpected token in JSON">>,
                         hasStatus |-> FALSE, status |-> 0]

\* a 200 with a malformed body on the first attempt, the whole budget left
C16_Witness ==
    /\ DefaultBudget
    /\ pc = "done"
    /\ fetched = <<Responded(200)>>
    /\ ~response.body.parses
    /\ bodyRead = "settled"
    /\ retries = 3
    /\ outcome.name = "SyntaxError"

(* C17: when a fetch rejects with an error other than an AbortError, the call
   rejects with that error, unchanged; the attempt made one fetch, and no
   sleep or fetch follows it. *)
C17_TransportRejectionIsTerminal ==
    \A k \in 1..Len(fetched) :
        fetched[k].kind = "reject"
        => /\ pc = "done"
           /\ Len(sent) = k
           /\ Len(fetched) = k
           /\ Len(sleeps) = k - 1
           /\ outcome = [kind |-> "error", name |-> "TypeError",
                         message |-> <<"fetch failed">>,
                         hasStatus |-> FALSE, status |-> 0]

\* the first fetch rejects, the whole budget left
C17_Witness ==
    /\ DefaultBudget
    /\ pc = "done"
    /\ Len(sent) = 1
    /\ fetched[1].kind = "reject"
    /\ retries = 3
    /\ sleeps = <<>>
    /\ outcome.name = "TypeError"

\* the envelope the claim gives for a failure with a given message
C18_Failure(message) ==
    [kind |-> "resolved", hasIsError |-> TRUE, isError |-> TRUE,
     text |-> <<"Error: ">> \o message]

(* C18: the promise of a tool handler is never rejected; once the handler has
   finished it has resolved to an envelope.  When jiraRequest threw (a
   classified HTTP failure, a timeout, a transport rejection, a parse
   failure), when shaping a null result threw, or when the upload's readFile,
   fetch, status test or response.json() threw, the envelope has
   isError = true and its text is 'Error: ' followed by the message of that
   error; when nothing threw (a parsed result, a null result that is not
   dereferenced, a cache hit) the envelope has no isError member. *)
C18_HandlerAlwaysResolves ==
    /\ handled.kind \in {"pending", "resolved"}
    /\ toolPc = "done"
       => /\ handled.kind = "resolved"
          /\ handled.hasIsError <=> handled.text[1] = "Error: "
          /\ handled.hasIsError => handled.isError
          /\ (tool # "jira-upload-attachment" /\ pc = "idle")
               => ~handled.hasIsError
          /\ (tool # "jira-upload-attachment" /\ pc = "done")
               => /\ outcome.kind = "error"
                       => handled = C18_Failure(outcome.message)
                  /\ outcome.kind = "value"
                       => /\ ~handled.hasIsError
                          /\ tool # "jira-delete-issue"
                               => handled.text = <<outcome.data>>
                  /\ outcome.kind = "null"
                       => IF tool \in {"jira-get-project-versions", "jira-get-custom-fields"}
                          THEN handled = C18_Failure(<<"Cannot read properties of null">>)
                          ELSE ~handled.hasIsError
          /\ tool = "jira-upload-attachment"
               => IF fetched = <<>>
                  THEN handled = C18_Failure(<<"ENOENT: no such file or directory">>)
                  ELSE IF LastFetched.kind = "reject"
                  THEN handled = C18_Failure(<<"fetch failed">>)
                  ELSE IF LastFetched.status \notin 200..299
                  THEN /\ handled.hasIsError
                       /\ HasPrefix(handled.text, <<"Error: ", "Jira API error: ">>)
                       /\ handled.text[Len(handled.text)] = response.statusText
                  ELSE IF response.body.parses
                  THEN /\ ~handled.hasIsError
                       /\ handled.text = <<response.body.data>>
                  ELSE handled = C18_Failure(<<"Unexpected token in JSON">>)

\* jira-get-project-versions receives null for a 204 and throws while shaping
C18_Witness ==
    /\ tool = "jira-get-project-versions"
    /\ toolPc = "done"
    /\ fetched = <<Responded(204)>>
    /\ outcome = [kind |-> "null"]
    /\ handled.isError
    /\ handled.text = <<"Error: ", "Cannot read properties of null">>

(* C19: whenever an HTTP request issued by a tool is in flight and not yet
   answered, the timeout timer armed for that request is pending, so that a
   server that never responds has the request aborted after
   REQUEST_TIMEOUT_MS and the handler returns an envelope. *)
C19_EveryRequestHasTimeout ==
    (pc = "fetch" \/ toolPc = "upload") => Len(sent) \in timers

(* C20: whenever config.json exists, parses and holds a non-empty jira.baseUrl
   and a non-empty jira.bearerToken, loadConfig returns exactly that pair,
   whatever JIRA_BASE_URL and JIRA_BEARER_TOKEN are; the pair of the
   environment is returned only when the file does not supply both values
   and both variables are non-empty; when neither source supplies both, the
   process exits with code 1. *)
C20_ConfigFilePrecedence ==
    config.kind # "none"
    => LET fileBoth == /\ configFile.exists
                       /\ configFile.parses
                       /\ configFile.hasJira
                       /\ configFile.baseUrl = "https://file.example"
                       /\ configFile.bearerToken = "fileTok"
           envBoth == /\ env.JIRA_BASE_URL = "https://env.example"
                      /\ env.JIRA_BEARER_TOKEN = "envTok"
       IN /\ fileBoth
               => config = [kind |-> "returned", baseUrl |-> "https://file.example",
                            bearerToken |-> "fileTok"]
          /\ (config.kind = "returned" /\ config.bearerToken = "envTok")
               => /\ ~fileBoth
                  /\ envBoth
                  /\ config.baseUrl = "https://env.example"
          /\ (~fileBoth /\ envBoth)
               => config = [kind |-> "returned", baseUrl |-> "https://env.example",
                            bearerToken |-> "envTok"]
          /\ (~fileBoth /\ ~envBoth) <=> config = [kind |-> "exit", code |-> 1]

\* both sources supply both values: the file's pair is returned
C20_Witness ==
    /\ configFile.exists
    /\ configFile.bearerToken = "fileTok"
    /\ env.JIRA_BASE_URL = "https://env.example"
    /\ env.JIRA_BEARER_TOKEN = "envTok"
    /\ config.kind = "returned"
    /\ config.baseUrl = "https://file.example"
    /\ config.bearerToken = "fileTok"

\* the directories a resolved path lies in or is: every prefix of its segments
IsInsideOrIs(resolved, dir) ==
    /\ Len(resolved) >= Len(dir)
    /\ \A i \in 1..Len(dir) : resolved[i] = dir[i]

(* C21: isValidFilePath(p) returns true exactly when p, resolved against the
   working directory, is the working directory or lies inside it: the
   segments of the working directory are the leading segments of the
   resolved path.  Every path that resolves elsewhere is answered false. *)
C21_ValidExactlyWhenInside ==
    valid # "pending"
    => (valid = "true" <=> IsInsideOrIs(Resolve(filePath, workingDir), workingDir))

(* C22: the attempts of one call are strictly sequential.  At most one fetch
   is in flight, and only while the call is suspended at it; an attempt after
   the first is issued only when the attempt before it was answered with a
   502, 503 or 504 that has been classified, and when the backoff sleep
   called for that retry has completed: while a sleep is pending the number
   of sleeps equals the number of fetches, and no fetch is in flight. *)
C22_AttemptsAreSequential ==
    /\ Len(fetched) <= Len(sent)
    /\ Len(sent) <= Len(fetched) + 1
    /\ (Len(sent) = Len(fetched) + 1) <=> (pc = "fetch")
    /\ \A n \in 2..Len(sent) :
         /\ RespondedIn(n - 1, {502, 503, 504})
         /\ Len(sleeps) >= n - 1
    /\ pc = "sleep" => (Len(sleeps) = Len(sent) /\ Len(fetched) = Len(sent))
    /\ pc \in {"fetch", "errorBody", "body", "done"} => Len(sleeps) = Len(sent) - 1

\* the third fetch is in flight, after two answered attempts and two sleeps
C22_Witness ==
    /\ pc = "fetch"
    /\ Len(sent) = 3
    /\ Len(fetched) = 2
    /\ Len(sleeps) = 2

(* C23: what the body of a non-2xx response holds changes neither the retry
   decision nor the status nor the beginning of the message.  Every attempt
   answered with 502, 503 or 504 while budget is left is followed by a sleep,
   every other non-2xx answer by none, whatever the body; a call that ends
   on a non-2xx response rejects with an Error carrying the status of the
   response and a message that begins with the message classified for it,
   and never with the error of a body that did not parse. *)
C23_EnrichmentNeverChangesOutcome ==
    /\ \A i \in 1..Len(fetched) :
         (RespondedIn(i, 300..599) /\ (i < Len(fetched) \/ pc \in {"sleep", "done"}))
         => IF fetched[i].status \in {502, 503, 504} /\ i <= budget
            THEN Len(sleeps) >= i
            ELSE Len(sleeps) = i - 1 /\ Len(sent) = i /\ pc = "done"
    /\ (pc = "done" /\ Len(fetched) > 0 /\ RespondedIn(Len(fetched), 300..599))
       => /\ outcome.kind = "error"
          /\ outcome.name = "Error"
          /\ outcome.hasStatus
          /\ outcome.status = LastFetched.status
          /\ HasPrefix(outcome.message,
                       C15_ExpectedPrefix(LastFetched.status, response.statusText))

\* a 404 whose body does not parse
C23_Witness ==
    /\ pc = "done"
    /\ fetched = <<Responded(404)>>
    /\ ~response.body.parses
    /\ bodyRead = "settled"
    /\ outcome.status = 404
    /\ outcome.message[1] = "Resource not found"

(* C24: one call has one retry budget, whatever the statuses.  After n
   retries the innermost frame holds the initial budget minus n, the number
   of retries never exceeds the initial budget, and a call that ends on a
   502, 503 or 504 reports the status of its last attempt. *)
C24_SingleRetryBudget ==
    pc # "idle"
    => /\ retries = budget - (Len(sent) - 1)
       /\ retries >= 0
       /\ Len(sent) - 1 <= budget
       /\ Len(sleeps) <= budget
       /\ (pc = "done" /\ RespondedIn(Len(fetched), {502, 503, 504}))
            => /\ Len(sent) = budget + 1
               /\ outcome.kind = "error"
               /\ outcome.status = fetched[Len(fetched)].status

\* a budget of 2 used up by 504 and 502, the call ends on 503
C24_Witness ==
    /\ budget = 2
    /\ pc = "done"
    /\ fetched = <<Responded(504), Responded(502), Responded(503)>>
    /\ retries = 0
    /\ outcome.status = 503

(* C25: for every initial retry budget, every delay slept before a retry is
   strictly positive, and the delays of successive retries are strictly
   increasing. *)
C25_DelaysPositiveAndIncreasing ==
    /\ \A n \in 1..Len(sleeps) : sleeps[n] > 0
    /\ \A n \in 2..Len(sleeps) : sleeps[n - 1] < sleeps[n]

(* C29: every attempt arms exactly one timeout timer, and once the call has
   returned or thrown, by whatever path, no timer is pending; before that
   the only timer that can be pending is that of the latest attempt. *)
C29_NoTimerOutlivesTheCall ==
    /\ armed = Len(sent)
    /\ timers \subseteq {Len(sent)}
    /\ pc = "done" => timers = {}
    /\ pc = "idle" => timers = {}

\* a call that ended on its fourth attempt: four timers armed, none pending
C29_Witness ==
    /\ pc = "done"
    /\ armed = 4
    /\ Len(sent) = 4
    /\ outcome.kind = "value"
    /\ timers = {}

\* the step in which the producer of call c rejects
Rejects(c) == calls[c].state = "awaiting" /\ calls'[c].state = "threw"

(* C26: the step in which the producer of a getCached call throws leaves the
   whole cache map as it was: an expired entry of the key keeps its value and
   its timestamp, the entries of the other keys are untouched; and the call
   returns no value, the expired one included: it rejects. *)
C26_FailedProducerLeavesCacheUnchanged ==
    [][ \A c \in 1..Len(calls) :
           Rejects(c)
           => /\ cache' = cache
              /\ \A k \in DOMAIN cache :
                   k \in DOMAIN cache' /\ cache'[k] = cache[k]
              /\ calls[c].seen.present
                   => EntryOf(cache', calls[c].key).present
              /\ calls'[c].value = 0
              /\ calls'[c].error.kind = "error" ]_vars

\* a call found the entry stored at time 0 expired, its producer threw, and
\* the map still holds exactly that entry
C26_Witness ==
    /\ Len(calls) = 2
    /\ calls[2].state = "threw"
    /\ calls[2].seen = [present |-> TRUE, data |-> 1, timestamp |-> 0]
    /\ calls[2].start >= 1
    /\ calls[2].value = 0
    /\ cache = (calls[2].key :> [data |-> 1, timestamp |-> 0])

\* call c invoked its producer, which resolved: c wrote the entry of its key
Wrote(c) == calls[c].state = "returned" /\ calls[c].inv # 0

(* C27: under any interleaving, with a clock that does not run backwards, the
   timestamp stored for a key never decreases: no write stores a timestamp
   below the one it overwrites, and of two writes for a key the later stores
   the greater or equal timestamp.  Every stored timestamp is the clock value
   at which the producer of the writing call completed, not the value at
   which the call started. *)
C27_TimestampsNeverDecrease ==
    /\ \A c \in 1..Len(calls) :
         Wrote(c)
         => /\ calls[c].stored.present
            /\ calls[c].stored.timestamp = calls[c].end
            /\ calls[c].end >= calls[c].start
            /\ calls[c].before.present
                 => calls[c].before.timestamp <= calls[c].stored.timestamp
    /\ \A c \in 1..Len(calls) : \A d \in 1..Len(calls) :
         (Wrote(c) /\ Wrote(d) /\ calls[c].key = calls[d].key
            /\ calls[c].rank < calls[d].rank)
         => calls[c].stored.timestamp <= calls[d].stored.timestamp
    /\ \A k \in DOMAIN cache :
         /\ cache[k].timestamp <= now
         /\ \E c \in 1..Len(calls) :
              /\ Wrote(c)
              /\ calls[c].key = k
              /\ cache[k].timestamp = calls[c].end

\* the call invoked first, at time 0, completes last, at time 1, over the
\* entry the other call wrote at time 0: the timestamp stored is 1
C27_Witness ==
    /\ Len(calls) = 2
    /\ Wrote(1)
    /\ Wrote(2)
    /\ calls[1].key = calls[2].key
    /\ calls[1].start = 0
    /\ calls[2].end = 0
    /\ calls[1].end = 1
    /\ calls[1].before = [present |-> TRUE, data |-> 2, timestamp |-> 0]
    /\ cache[calls[1].key].timestamp = 1

(* C28: freshness is decided by the ttl of the reading call alone.  A call
   returns the stored value without invoking its producer exactly when it
   reads an entry whose age is below its own ttl, whatever ttl the writing
   call was given; a value whose age is at least the reading call's ttl is
   never returned from the cache. *)
C28_FreshnessByReadersTtl ==
    \A j \in 1..Len(calls) :
        /\ (calls[j].inv = 0)
             <=> (calls[j].seen.present
                    /\ calls[j].start - calls[j].seen.timestamp < calls[j].ttl)
        /\ calls[j].inv = 0
             => /\ calls[j].state = "returned"
                /\ calls[j].value = calls[j].seen.data
        /\ (calls[j].seen.present
               /\ calls[j].start - calls[j].seen.timestamp >= calls[j].ttl
               /\ calls[j].state = "returned")
             => calls[j].value # calls[j].seen.data

\* an entry written by a call with ttl 1 is read at age 1 by a call with the
\* default ttl, which returns it
C28_Witness ==
    /\ Len(calls) = 2
    /\ Wrote(1)
    /\ calls[1].ttl = 1
    /\ calls[2].key = calls[1].key
    /\ calls[2].ttl = 300000
    /\ SawEntry(2)
    /\ AgeSeen(2) = 1
    /\ calls[2].inv = 0
    /\ calls[2].value = 1

(* C30: every call terminates.  Given that a pending timeout timer fires and
   a started sleep completes, so that every fetch and every reading of a body
   either settles or is aborted, a call that was made eventually returns or
   throws; and it never makes more fetches than its initial budget plus
   one. *)
C30_CallTerminates ==
    /\ [](Len(sent) <= budget + 1)
    /\ (pc # "idle") ~> (pc = "done")

\* a call with the largest budget that ended after budget + 1 fetches
C30_Witness ==
    /\ budget = MaxBudget
    /\ pc = "done"
    /\ Len(sent) = budget + 1
    /\ Len(fetched) = budget + 1

=============================================================================
